---- MODULE Spec2Model ----
(***************************************************************************)
(* Page flow of the two report generators (active-mode-breakdown.py and    *)
(* feed-feature-breakdown.py): the FeaturePDF layout methods and the steps *)
(* of build_pdf, over the cursor / page state of the FPDF instance.        *)
(*                                                                         *)
(* Every length of the source is a multiple of 0.5 mm; lengths are kept as *)
(* integers in half millimetres (5.5 mm = 11, 277 mm = 554).               *)
(***************************************************************************)
EXTENDS Integers, Sequences, FiniteSets, TLC

\* ---- bounds of the model -------------------------------------------------
MaxBlocks == 4          \* block-level steps of build_pdf after the table of contents
MaxLines == 3           \* wrapped lines of a paragraph / bullet / small code block
BigCode == 50           \* a code block that nearly fills a page
HugeCode == 60          \* a code block taller than the whole printable page
MaxPurposeLines == 5    \* wrapped lines of the cover's purpose paragraph
MaxRows == 42           \* rows of a checklist too long for the page it starts on
TwinBlocks == 2         \* blocks after the first section in a document rendered twice
MaxTicks == 1           \* minutes the clock advances while two renders run
MaxWords == 3           \* words of a paragraph handed to multi_cell
MaxWord == 5            \* glyphs of the longest word, more than a line holds

\* ---- page geometry (half millimetres) ------------------------------------
PageW == 420
PageH == 594
LMargin == 20
RMargin == 20
TMargin == 20
BMargin == 40
BodyLineH == 11
CodeLineH == 9
PageBreakTrigger == PageH - BMargin

\* ---- theme ---------------------------------------------------------------
BG_PRIMARY == "BG_PRIMARY"
BG_CARD == "BG_CARD"
BG_CODE == "BG_CODE"
TEXT_PRIMARY == "TEXT_PRIMARY"
TEXT_SECONDARY == "TEXT_SECONDARY"
TEXT_MUTED == "TEXT_MUTED"
ACCENT == "ACCENT"
SUCCESS == "SUCCESS"
DANGER == "DANGER"
CODE_TEXT == "CODE_TEXT"
\* colours written as literals in the layout code
RGB_255_183_77 == "(255, 183, 77)"
RGB_40_40_60 == "(40, 40, 60)"

\* the header titles of the two generators
TITLE_ACTIVE == "AutoNateAI Learning Hub  |  Admin/User Mode Switch Build Breakdown"
TITLE_FEED == "AutoNateAI Learning Hub  |  Feed & Post Management Feature Breakdown"

Theme == {BG_PRIMARY, BG_CARD, BG_CODE, TEXT_PRIMARY, TEXT_SECONDARY, TEXT_MUTED,
          ACCENT, SUCCESS, DANGER, CODE_TEXT}

VARIABLES
    pdf,        \* the FeaturePDF instance: cursor, page number, pages, draw calls
    pc,         \* position in build_pdf: "cover", "toc", "section", "body",
                \* "checklist", "done", or "failed" when a call has raised
    nblocks,    \* block-level steps taken after the table of contents
    block,      \* the block step just executed and the cursor it started from
    artifact,   \* the files this render has written
    para,       \* a paragraph handed to multi_cell: its words, the width, its lines
    doc,        \* the block sequence given to two renders
    twin        \* the second render of doc, on a FeaturePDF instance of its own

vars == <<pdf, pc, nblocks, block, artifact, para, doc, twin>>

\* ---- FPDF primitives -----------------------------------------------------
Decor == {"band", "title", "hrule", "bg", "footer"}

\* draw calls painted with the draw colour (line) and with the fill colour (rect)
Lines == {"hrule", "rule", "underline", "tocline"}
Rects == {"band", "bg", "card"}

\* where the cursor is
at(p) == [page |-> p.page, y |-> p.y]

\* the colour a draw call paints with: lines take the draw colour, filled rectangles
\* the fill colour, text the text colour
paint(p, what) ==
    IF what \in Lines THEN p.draw_color
    ELSE IF what \in Rects THEN p.fill_color
    ELSE p.text_color

\* one draw call: page decoration goes to the page record, content to pdf.drawn;
\* from is the cursor at which the drawing primitive was called
\* a footer is "Page <page_no()>/<alias>  |  Generated <now>  |  CONFIDENTIAL", the
\* title of a header is the text written in the header() of the instance's class
draw(p, what, x, y, h, i, from) ==
    IF what \in Decor
    THEN [p EXCEPT !.pages[p.page].decor = Append(@, what),
                   !.pages[p.page].colors = @ \cup {paint(p, what)},
                   !.pages[p.page].footno = IF what = "footer" THEN p.page ELSE @,
                   !.pages[p.page].total = IF what = "footer" THEN p.alias ELSE @,
                   !.pages[p.page].stamp = IF what = "footer" THEN p.now ELSE @,
                   !.pages[p.page].title = IF what = "title" THEN p.title ELSE @]
    ELSE [p EXCEPT !.drawn = Append(@, [page |-> p.page, x |-> x, y |-> y, h |-> h,
                                        what |-> what, line |-> i, from |-> from,
                                        color |-> paint(p, what),
                                        fill |-> IF what = "code" THEN p.fill_color
                                                 ELSE paint(p, what)])]

set_text_color(p, c) == [p EXCEPT !.text_color = c]

set_draw_color(p, c) == [p EXCEPT !.draw_color = c]

set_fill_color(p, c) == [p EXCEPT !.fill_color = c]

\* variant: the cursor is an attribute of the class, shared by the instances
ln_class_cursor(p, h) == [p EXCEPT !.x = LMargin, !.y = pdf.y + h]

\* variant: a line break moves the cursor down and leaves x where it is
ln_keep_x(p, h) == [p EXCEPT !.y = @ + h]

ln(p, h) == [p EXCEPT !.x = LMargin, !.y = @ + h]

set_x(p, x) == [p EXCEPT !.x = x]

set_y(p, y) == [p EXCEPT !.x = LMargin, !.y = IF y >= 0 THEN y ELSE PageH + y]

set_xy(p, x, y) == set_x(set_y(p, y), x)

line(p, what, y) == draw(p, what, LMargin, y, 0, 0, at(p))

rect(p, what, y, h) == draw(p, what, 0, y, h, 0, at(p))

\* variant: the break test looks at the cursor alone and ignores the row height
will_page_break_cursor_only(p, h) == p.y > PageBreakTrigger /\ ~p.in_footer

\* variant: the break test uses the page edge, not the bottom margin
will_page_break_page_edge(p, h) == p.y + h > PageH /\ ~p.in_footer

will_page_break(p, h) == p.y + h > PageBreakTrigger /\ ~p.in_footer

\* variant: a page started by an automatic break keeps the previous page number
beginpage_same_number(p, same) ==
    [p EXCEPT !.page = IF same THEN @ ELSE @ + 1, !.x = LMargin, !.y = TMargin,
              !.pages = Append(@, [no |-> IF same THEN p.page ELSE p.page + 1,
                                   auto |-> same, decor |-> <<>>,
                                   footno |-> 0, kinds |-> {}, colors |-> {},
                                   total |-> "", stamp |-> 0, top |-> 0,
                                   title |-> ""])]

beginpage(p, same) ==
    [p EXCEPT !.page = @ + 1, !.x = LMargin, !.y = TMargin,
              !.pages = Append(@, [no |-> p.page + 1, auto |-> same, decor |-> <<>>,
                                   footno |-> 0, kinds |-> {}, colors |-> {},
                                   total |-> "", stamp |-> 0, top |-> 0,
                                   title |-> ""])]

\* the end of add_page: the colours of before the header are set again; c is the
\* instance as header() left it, with the cursor at the top of the new page
page_opened(c, p) ==
    [c EXCEPT !.text_color = p.text_color, !.draw_color = p.draw_color,
              !.fill_color = p.fill_color, !.pages[c.page].top = c.y]

\* the rest of cell, after its break test: q is the instance the cell is drawn on, p
\* the instance cell was called on
cell_at(q, p, w, h, what, new_x, new_y) ==
    [draw(q, what, q.x, q.y, h, 0, at(p)) EXCEPT
        !.x = IF new_x = "LMARGIN" THEN LMargin
              ELSE q.x + (IF w = 0 THEN PageW - RMargin - q.x ELSE w),
        !.y = IF new_y = "NEXT" THEN q.y + h ELSE q.y]

\* the rest of a wrapped line of multi_cell, after its break test
text_line_at(q, p, h, what, i) ==
    [draw(q, what, q.x, q.y, h, i, at(p)) EXCEPT !.y = q.y + h]

\* cell -> automatic page break -> add_page -> footer / header -> cell
RECURSIVE cell(_, _, _, _, _, _)
RECURSIVE header(_)
RECURSIVE footer(_)
RECURSIVE add_page(_, _)
RECURSIVE perform_page_break(_)

\* variant: the header is laid out from wherever the new page leaves the cursor
header_from_cursor(p) ==
    LET a == rect(set_fill_color(p, BG_PRIMARY), "band", 0, 36)
        b == set_text_color(a, TEXT_MUTED)
        c == cell(b, 0, 16, "title", "RIGHT", "TOP")
        d == line(set_draw_color(c, ACCENT), "hrule", 32)
    IN  ln(d, 24)

header(p) ==
    LET a == rect(set_fill_color(p, BG_PRIMARY), "band", 0, 36)
        b == set_y(set_text_color(a, TEXT_MUTED), 10)
        c == cell(b, 0, 16, "title", "RIGHT", "TOP")
        d == line(set_draw_color(c, ACCENT), "hrule", 32)
    IN  ln(d, 24)

\* variant: a longer time of day makes the footer text take a second cell
footer_by_the_clock(p) ==
    LET a == set_text_color(set_y(p, -30), TEXT_MUTED)
        b == cell(a, 0, 20, "footer", "RIGHT", "TOP")
    IN  IF p.now % 2 = 1 THEN cell(b, 0, 20, "footer", "RIGHT", "TOP") ELSE b

footer(p) ==
    LET a == set_text_color(set_y(p, -30), TEXT_MUTED)
    IN  cell(a, 0, 20, "footer", "RIGHT", "TOP")

add_page(p, same) ==
    LET a == IF p.page > 0
             THEN [footer([p EXCEPT !.in_footer = TRUE]) EXCEPT !.in_footer = FALSE]
             ELSE p
        b == beginpage(a, same)
    IN  page_opened(header(b), p)

perform_page_break(p) == [add_page(p, TRUE) EXCEPT !.x = p.x]

cell(p, w, h, what, new_x, new_y) ==
    cell_at(IF will_page_break(p, h) THEN perform_page_break(p) ELSE p,
            p, w, h, what, new_x, new_y)

\* variant: a wrapped line is drawn where the cursor is, without the break test
text_line_no_break(p, h, what, i) ==
    [draw(p, what, p.x, p.y, h, i, at(p)) EXCEPT !.y = p.y + h]

\* variant: the line that triggers a page break is lost
text_line_drop(p, h, what, i) ==
    IF will_page_break(p, h) THEN perform_page_break(p)
    ELSE [draw(p, what, p.x, p.y, h, i, at(p)) EXCEPT !.y = p.y + h]

\* one wrapped line of multi_cell: new_x = LEFT, new_y = NEXT
text_line(p, h, what, i) ==
    text_line_at(IF will_page_break(p, h) THEN perform_page_break(p) ELSE p,
                 p, h, what, i)

\* the lines are laid out one after the other; q.page > 0 holds on every page and
\* makes the state after line i a value before line i + 1 is laid out
RECURSIVE text_lines(_, _, _, _, _)
text_lines(p, h, what, i, n) ==
    IF i > n THEN p
    ELSE LET q == text_line(p, h, what, i)
         IN  IF q.page > 0 THEN text_lines(q, h, what, i + 1, n) ELSE q

\* variant: the last line is rendered with new_y = TOP, the cursor stays on it
multi_cell_stay(p, w, h, what, n) ==
    LET cw == IF w = 0 THEN PageW - RMargin - p.x ELSE w
        q == text_lines(p, h, what, 1, n)
    IN  [q EXCEPT !.x = @ + cw, !.y = @ - h]

\* multi_cell of a text that wraps to n lines; the last line leaves x at the right edge
multi_cell(p, w, h, what, n) ==
    LET cw == IF w = 0 THEN PageW - RMargin - p.x ELSE w
        q == text_lines(p, h, what, 1, n)
    IN  [q EXCEPT !.x = @ + cw]

\* ---- FeaturePDF ----------------------------------------------------------
dark_bg(p) == rect(set_fill_color(p, BG_PRIMARY), "bg", 0, PageH)

\* a line across the page at the height of the cursor
line_at_cursor(p, what) == line(p, what, p.y)

section_title(p) ==
    LET a == ln(set_text_color(p, TEXT_PRIMARY), 8)
        b == cell(a, 0, 20, "heading", "LMARGIN", "NEXT")
        c == line_at_cursor(set_draw_color(b, ACCENT), "underline")
    IN  ln(c, 8)

\* variant: a sub-heading opens a page of its own, like a section heading
sub_title_own_page(p) ==
    LET a == ln(set_text_color(dark_bg(add_page(p, FALSE)), ACCENT), 4)
        b == cell(a, 0, 16, "subheading", "LMARGIN", "NEXT")
    IN  ln(b, 2)

\* variant: the gap under a sub-heading is 2 in one generator and 1 in the other
sub_title_by_class(p) ==
    LET a == ln(set_text_color(p, ACCENT), 4)
        b == cell(a, 0, 16, "subheading", "LMARGIN", "NEXT")
    IN  ln(b, IF p.title = TITLE_ACTIVE THEN 2 ELSE 4)

sub_title(p) ==
    LET a == ln(set_text_color(p, ACCENT), 4)
        b == cell(a, 0, 16, "subheading", "LMARGIN", "NEXT")
    IN  ln(b, 2)

body_text(p, n) ==
    ln(multi_cell(set_text_color(p, TEXT_SECONDARY), 0, BodyLineH, "text", n), 4)

\* variant: the marker cell moves the cursor down to the next line
bullet_marker_own_line(p, n, indent) ==
    LET x == p.x
        a == set_text_color(set_x(p, x + indent), ACCENT)
        b == cell(a, 12, BodyLineH, "marker", "RIGHT", "NEXT")
        c == multi_cell(set_text_color(b, TEXT_SECONDARY), 0, BodyLineH, "text", n)
    IN  ln(c, 2)

bullet(p, n, indent) ==
    LET x == p.x
        a == set_text_color(set_x(p, x + indent), ACCENT)
        b == cell(a, 12, BodyLineH, "marker", "RIGHT", "TOP")
        c == multi_cell(set_text_color(b, TEXT_SECONDARY), 0, BodyLineH, "text", n)
    IN  ln(c, 2)

\* variant: the block is measured first and moved to a fresh page when it does not fit
code_block_measured(p, n) ==
    LET a == IF p.y + n * CodeLineH > PageBreakTrigger THEN perform_page_break(p) ELSE p
        b == set_x(set_text_color(set_fill_color(a, BG_CODE), CODE_TEXT), 30)
    IN  ln(multi_cell(b, 360, CodeLineH, "code", n), 6)

\* (the feed generator's code_block first reads y_start = get_y() and never uses it)
code_block(p, n) ==
    LET a == set_x(set_text_color(set_fill_color(p, BG_CODE), CODE_TEXT), 30)
    IN  ln(multi_cell(a, 360, CodeLineH, "code", n), 6)

\* variant: in-progress is not told apart from planned
status_badge_two_way(p, status) ==
    LET a == IF status = "complete" THEN set_text_color(p, SUCCESS)
             ELSE set_text_color(p, TEXT_MUTED)
        badge == IF status = "complete" THEN "[COMPLETE]" ELSE "[PLANNED]"
        b == cell(a, 0, 12, badge, "LMARGIN", "NEXT")
    IN  ln(b, 2)

\* variant: a status that is not one of the three is marked as unknown
status_badge_strict(p, status) ==
    LET a == IF status = "complete" THEN set_text_color(p, SUCCESS)
             ELSE IF status = "in-progress" THEN set_text_color(p, RGB_255_183_77)
             ELSE IF status = "planned" THEN set_text_color(p, TEXT_MUTED)
             ELSE set_text_color(p, DANGER)
        badge == IF status = "complete" THEN "[COMPLETE]"
                 ELSE IF status = "in-progress" THEN "[IN PROGRESS]"
                 ELSE IF status = "planned" THEN "[PLANNED]"
                 ELSE "[UNKNOWN]"
        b == cell(a, 0, 12, badge, "LMARGIN", "NEXT")
    IN  ln(b, 2)

status_badge(p, status) ==
    LET a == IF status = "complete" THEN set_text_color(p, SUCCESS)
             ELSE IF status = "in-progress" THEN set_text_color(p, RGB_255_183_77)
             ELSE set_text_color(p, TEXT_MUTED)
        badge == IF status = "complete" THEN "[COMPLETE]"
                 ELSE IF status = "in-progress" THEN "[IN PROGRESS]"
                 ELSE "[PLANNED]"
        b == cell(a, 0, 12, badge, "LMARGIN", "NEXT")
    IN  ln(b, 2)

\* ---- build_pdf -----------------------------------------------------------
FeaturePDF ==
    [page |-> 0, x |-> 0, y |-> 0, in_footer |-> FALSE,
     text_color |-> "BLACK", draw_color |-> "BLACK", fill_color |-> "BLACK",
     alias |-> "{nb}", now |-> 0, pages |-> <<>>, drawn |-> <<>>, nb |-> 0,
     title |-> TITLE_ACTIVE]

\* FeaturePDF() of feed-feature-breakdown.py: the same methods, its own header title
FeaturePDF_feed == [FeaturePDF EXCEPT !.title = TITLE_FEED]

\* the draw calls of the block about to run replace those of the previous block
begin(p) == [p EXCEPT !.drawn = <<>>]

\* which block kinds have drawn on which page
note(p, kind) ==
    [p EXCEPT !.pages = [k \in DOMAIN p.pages |->
        IF \E i \in DOMAIN p.drawn : p.drawn[i].page = k
        THEN [p.pages[k] EXCEPT !.kinds = @ \cup {kind}] ELSE p.pages[k]]]

Bottom(p) ==
    IF p.drawn = <<>> THEN [page |-> 0, y |-> 0]
    ELSE [page |-> p.drawn[Len(p.drawn)].page,
          y |-> p.drawn[Len(p.drawn)].y + p.drawn[Len(p.drawn)].h]

\* opt is the argument the block was called with besides its text: a status, a done
\* flag, an indent, the number of done rows of a checklist
Started(kind, n, forced) ==
    [kind |-> kind, lines |-> n, forced |-> forced, opt |-> "",
     page0 |-> pdf.page, x0 |-> pdf.x, y0 |-> pdf.y, prev |-> Bottom(pdf)]

StartedWith(kind, n, opt) == [Started(kind, n, FALSE) EXCEPT !.opt = opt]

\* the card of the cover page, drawn at the cursor; the cursor is moved into it
purpose_card(p) ==
    set_xy(rect(set_fill_color(p, BG_CARD), "card", p.y, 76), 40, p.y + 8)

cover_page(p, n) ==
    LET a == ln(dark_bg(add_page(p, FALSE)), 70)
        b == ln(line_at_cursor(set_draw_color(a, ACCENT), "rule"), 16)
        c == cell(set_text_color(b, TEXT_PRIMARY), 0, 28, "cover", "LMARGIN", "NEXT")
        d == ln(cell(c, 0, 28, "cover", "LMARGIN", "NEXT"), 12)
        e == ln(line_at_cursor(d, "rule"), 20)
        f == ln(cell(set_text_color(e, ACCENT), 0, 16, "cover", "LMARGIN", "NEXT"), 4)
        g == ln(cell(set_text_color(f, TEXT_SECONDARY), 0, 16, "cover", "LMARGIN", "NEXT"), 4)
        h == ln(cell(set_text_color(g, TEXT_MUTED), 0, 16, "cover", "LMARGIN", "NEXT"), 60)
        i == purpose_card(h)
        j == cell(set_text_color(i, ACCENT), 0, 12, "cover", "LMARGIN", "NEXT")
    IN  multi_cell(set_text_color(set_x(j, 40), TEXT_SECONDARY), 340, 10, "cover", n)

\* no block step has run
NoBlock ==
    [kind |-> "none", lines |-> 0, forced |-> FALSE, opt |-> "",
     page0 |-> 0, x0 |-> 0, y0 |-> 0, prev |-> [page |-> 0, y |-> 0]]

\* ---- multi_cell's line breaking ---------------------------------------------
\* a glyph is the c-th letter of the w-th word, or the space between two words; every
\* glyph is one unit wide
SPACE == [w |-> 0, c |-> 0]

Word(i, n) == [k \in 1..n |-> [w |-> i, c |-> k]]

\* the text of a paragraph: its words, from the i-th on, joined by single spaces
RECURSIVE Text(_, _)
Text(words, i) ==
    IF i > Len(words) THEN <<>>
    ELSE (IF i > 1 THEN <<SPACE>> ELSE <<>>) \o Word(i, words[i]) \o Text(words, i + 1)

\* variant: a line is broken at spaces only, a word is never cut
RECURSIVE get_line_at_spaces(_, _, _, _, _)
get_line_at_spaces(text, idx, w, cur, hint) ==
    IF idx > Len(text) THEN [line |-> cur, idx |-> idx]
    ELSE LET ch == text[idx]
         IN  IF Len(cur) + 1 > w /\ ch = SPACE
             THEN [line |-> cur, idx |-> idx + 1]
             ELSE IF Len(cur) + 1 > w /\ hint.idx > 0
             THEN [line |-> SubSeq(cur, 1, hint.len), idx |-> hint.idx + 1]
             ELSE get_line_at_spaces(text, idx + 1, w, Append(cur, ch),
                                     IF ch = SPACE THEN [len |-> Len(cur), idx |-> idx]
                                     ELSE hint)

\* one line of multi_cell: glyphs are added while they fit in width w; at the first
\* glyph that does not fit, a space ends the line and is dropped, else the line is
\* cut back to its last space if it has one, else it is cut before that glyph
RECURSIVE get_line(_, _, _, _, _)
get_line(text, idx, w, cur, hint) ==
    IF idx > Len(text) THEN [line |-> cur, idx |-> idx]
    ELSE LET ch == text[idx]
         IN  IF Len(cur) + 1 > w
             THEN IF ch = SPACE THEN [line |-> cur, idx |-> idx + 1]
                  ELSE IF hint.idx > 0
                  THEN [line |-> SubSeq(cur, 1, hint.len), idx |-> hint.idx + 1]
                  ELSE [line |-> cur, idx |-> idx]
             ELSE get_line(text, idx + 1, w, Append(cur, ch),
                           IF ch = SPACE THEN [len |-> Len(cur), idx |-> idx] ELSE hint)

\* the lines multi_cell prints for a text, from glyph idx on
RECURSIVE multi_line(_, _, _)
multi_line(text, idx, w) ==
    IF idx > Len(text) THEN <<>>
    ELSE LET r == get_line(text, idx, w, <<>>, [len |-> 0, idx |-> 0])
         IN  <<r.line>> \o multi_line(text, r.idx, w)

\* line widths, in glyphs
Widths == {3, 4}

Paragraphs ==
    UNION {[1..k -> 1..MaxWord] : k \in 1..MaxWords}

NoPara == [words |-> <<>>, w |-> 0, lines |-> <<>>, printed |-> FALSE]

\* a render: its FeaturePDF instance, its position in build_pdf, the files written
NoTwin == [pdf |-> FeaturePDF, pc |-> "cover", nblocks |-> 0, artifact |-> <<>>]

Init ==
    /\ pdf = FeaturePDF
    /\ pc = "cover"
    /\ nblocks = 0
    /\ block = NoBlock
    /\ artifact = <<>>
    /\ para = NoPara
    /\ doc = <<>>
    /\ twin = NoTwin

Cover ==
    /\ pc = "cover"
    /\ \E n \in 1..MaxPurposeLines :
          /\ pdf' = note(cover_page(begin(pdf), n), "cover")
          /\ block' = Started("cover", n, TRUE)
    /\ pc' = "toc"
    /\ UNCHANGED <<nblocks, artifact, para, doc, twin>>

\* variant: the separating line is drawn at the top edge of the row
RECURSIVE toc_rows_line_at_top(_, _)
toc_rows_line_at_top(p, k) ==
    IF k = 0 THEN p
    ELSE LET a == set_draw_color(set_text_color(p, TEXT_PRIMARY), RGB_40_40_60)
             b == line(a, "tocline", a.y)
             c == cell(b, 0, 18, "toc", "LMARGIN", "NEXT")
         IN  IF c.page > 0 THEN toc_rows_line_at_top(c, k - 1) ELSE c

RECURSIVE toc_rows(_, _)
toc_rows(p, k) ==
    IF k = 0 THEN p
    ELSE LET a == set_draw_color(set_text_color(p, TEXT_PRIMARY), RGB_40_40_60)
             y == a.y + 12
             b == line(a, "tocline", y)
             c == cell(b, 0, 18, "toc", "LMARGIN", "NEXT")
         IN  IF c.page > 0 THEN toc_rows(c, k - 1) ELSE c

\* variant: a section is opened by two add_page calls
new_section_after_blank(p) ==
    section_title(dark_bg(add_page(add_page(p, FALSE), FALSE)))

\* every numbered section, and the table of contents, opens the same way
new_section(p) == section_title(dark_bg(add_page(p, FALSE)))

\* variant: the table of contents is drawn without opening a page
table_of_contents_same_page(p, k) == toc_rows(section_title(p), k)

table_of_contents(p, k) == toc_rows(new_section(p), k)

\* variant: the glyph cell moves the cursor to the next line, as the label cell does
checklist_row_glyph_line(p, done) ==
    LET a == set_text_color(p, IF done THEN SUCCESS ELSE DANGER)
        check == IF done THEN "[x]" ELSE "[ ]"
        b == cell(a, 20, 12, check, "LMARGIN", "NEXT")
    IN  cell(set_text_color(b, TEXT_SECONDARY), 0, 12, "label", "LMARGIN", "NEXT")

\* variant: the glyph is coloured by the flag but always reads as checked
checklist_row_always_checked(p, done) ==
    LET a == set_text_color(p, IF done THEN SUCCESS ELSE DANGER)
        b == cell(a, 20, 12, "[x]", "RIGHT", "TOP")
    IN  cell(set_text_color(b, TEXT_SECONDARY), 0, 12, "label", "LMARGIN", "NEXT")

checklist_row(p, done) ==
    LET a == set_text_color(p, IF done THEN SUCCESS ELSE DANGER)
        check == IF done THEN "[x]" ELSE "[ ]"
        b == cell(a, 20, 12, check, "RIGHT", "TOP")
    IN  cell(set_text_color(b, TEXT_SECONDARY), 0, 12, "label", "LMARGIN", "NEXT")

\* the two cells of the row just drawn are the i-th row of the list
row_of_list(q, i) ==
    [q EXCEPT !.drawn[Len(q.drawn) - 1].line = i, !.drawn[Len(q.drawn)].line = i]

\* the checklist loop: rows i..n of a list whose first d rows are done; the two cells
\* of a row are numbered with the row's place in the list
RECURSIVE checklist(_, _, _, _)
checklist(p, i, n, d) ==
    IF i > n THEN p
    ELSE LET r == row_of_list(checklist_row(p, i <= d), i)
         IN  IF r.page > 0 THEN checklist(r, i + 1, n, d) ELSE r

caption(p) == cell(set_text_color(p, ACCENT), 0, 14, "caption", "LMARGIN", "NEXT")

\* the end of output(): in every page of a, the alias is replaced by the page count
alias_replaced(a) ==
    [a EXCEPT !.nb = a.page,
              !.pages = [i \in DOMAIN a.pages |->
                  [a.pages[i] EXCEPT !.total =
                      IF @ = a.alias THEN ToString(a.page) ELSE @]]]

\* variant: the document is closed without replacing the alias
output_keep_alias(p) ==
    LET a == [footer([p EXCEPT !.in_footer = TRUE]) EXCEPT !.in_footer = FALSE]
    IN  [a EXCEPT !.nb = a.page]

\* output(): the last page's footer is written, then the alias {nb} is replaced by the
\* number of pages in every page
output(p) ==
    alias_replaced([footer([p EXCEPT !.in_footer = TRUE]) EXCEPT !.in_footer = FALSE])

TocLengths == {11, 13}
Indents == {30, 20}
Gaps == {4, 8}
Statuses == {"complete", "in-progress", "planned"}
\* a status value that status_badge does not name
OtherStatuses == {"done"}
CodeLines == (1..MaxLines) \cup {BigCode, HugeCode}
RowCounts == {18, 26, MaxRows}
OpenRows == {1, 5}

Toc ==
    /\ pc = "toc"
    /\ \E k \in TocLengths :
          /\ pdf' = note(table_of_contents(begin(pdf), k), "toc")
          /\ block' = Started("toc", k, TRUE)
    /\ pc' = "section"
    /\ UNCHANGED <<nblocks, artifact, para, doc, twin>>

\* a block-level step of build_pdf between the table of contents and output
Step(kind, n, forced, q) ==
    /\ nblocks < MaxBlocks
    /\ pdf' = note(q, kind)
    /\ block' = Started(kind, n, forced)
    /\ nblocks' = nblocks + 1
    /\ pc' = "body"
    /\ UNCHANGED <<artifact, para, doc, twin>>

\* a block method called with an argument besides its text
StepWith(kind, n, opt, q) ==
    /\ nblocks < MaxBlocks
    /\ pdf' = note(q, kind)
    /\ block' = StartedWith(kind, n, opt)
    /\ nblocks' = nblocks + 1
    /\ pc' = "body"
    /\ UNCHANGED <<artifact, para, doc, twin>>

Section ==
    /\ pc \in {"section", "body"}
    /\ Step("section_title", 1, TRUE, new_section(begin(pdf)))

SubTitle ==
    /\ pc = "body"
    /\ Step("sub_title", 1, FALSE, sub_title(begin(pdf)))

BodyText ==
    /\ pc = "body"
    /\ \E n \in 1..MaxLines : Step("body_text", n, FALSE, body_text(begin(pdf), n))

Bullet ==
    /\ pc = "body"
    /\ \E n \in 1..MaxLines, indent \in Indents :
          StepWith("bullet", n, indent, bullet(begin(pdf), n, indent))

CodeBlock ==
    /\ pc = "body"
    /\ \E n \in CodeLines : Step("code_block", n, FALSE, code_block(begin(pdf), n))

StatusBadge ==
    /\ pc = "body"
    /\ \E s \in Statuses \cup OtherStatuses :
          StepWith("status_badge", 1, s, status_badge(begin(pdf), s))

ChecklistRow ==
    /\ pc = "body"
    /\ \E done \in BOOLEAN :
          StepWith("checklist_row", 1, done, checklist_row(begin(pdf), done))

\* the checklist is looped over after a section heading and a gap
\* and it is the last block before output
Checklist ==
    /\ pc = "body"
    /\ block.kind \in {"section_title", "gap"}
    /\ nblocks < MaxBlocks
    /\ \E n \in RowCounts, open \in OpenRows :
          /\ pdf' = note(checklist(begin(pdf), 1, n, n - open), "checklist")
          /\ block' = StartedWith("checklist", n, n - open)
    /\ nblocks' = nblocks + 1
    /\ pc' = "checklist"
    /\ UNCHANGED <<artifact, para, doc, twin>>

Caption ==
    /\ pc = "body"
    /\ Step("caption", 1, FALSE, caption(begin(pdf)))

Gap ==
    /\ pc = "body"
    /\ \E h \in Gaps : Step("gap", 0, FALSE, ln(begin(pdf), h))

\* variant: the document is written only when its cursor is inside the printable area
Output_inside_print_area ==
    /\ pc \in {"body", "checklist"}
    /\ pdf.y <= PageBreakTrigger
    /\ pdf' = output(pdf)
    /\ artifact' = Append(artifact, [pages |-> pdf'.nb])
    /\ pc' = "done"
    /\ UNCHANGED <<nblocks, block, para, doc, twin>>

\* pdf.output(output_path): the one call that writes the file, build_pdf's last
Output ==
    /\ pc \in {"body", "checklist"}
    /\ pdf' = output(pdf)
    /\ artifact' = Append(artifact, [pages |-> pdf'.nb])
    /\ pc' = "done"
    /\ UNCHANGED <<nblocks, block, para, doc, twin>>

\* variant: the failure is handled by writing out what has been drawn so far
Fail_flush ==
    /\ pc \in {"cover", "toc", "section", "body", "checklist"}
    /\ pc' = "failed"
    /\ pdf' = FeaturePDF
    /\ block' = NoBlock
    /\ artifact' = Append(artifact, [pages |-> pdf.page])
    /\ UNCHANGED <<nblocks, para, doc, twin>>

\* a call of the backend raises before output: nothing in build_pdf catches it, the
\* call ends there and its document object is dropped with it
Fail ==
    /\ pc \in {"cover", "toc", "section", "body", "checklist"}
    /\ pc' = "failed"
    /\ pdf' = FeaturePDF
    /\ block' = NoBlock
    /\ UNCHANGED <<nblocks, artifact, para, doc, twin>>

\* a render in which no call of the backend fails
Render ==
    \/ Cover
    \/ Toc
    \/ Section
    \/ SubTitle
    \/ BodyText
    \/ Bullet
    \/ CodeBlock
    \/ StatusBadge
    \/ ChecklistRow
    \/ Checklist
    \/ Caption
    \/ Gap
    \/ Output

Next ==
    \/ Render
    \/ Fail

Spec == Init /\ [][Next]_vars

\* the positions of build_pdf before the first numbered section is drawn
Opening == pc \in {"cover", "toc", "section"}

\* body_text on its own: a paragraph and a width, then the lines multi_cell prints
InitPara ==
    /\ pdf = FeaturePDF
    /\ pc = "body"
    /\ nblocks = 0
    /\ block = NoBlock
    /\ artifact = <<>>
    /\ para \in [words : Paragraphs, w : Widths, lines : {<<>>}, printed : {FALSE}]
    /\ doc = <<>>
    /\ twin = NoTwin

MultiCell ==
    /\ ~para.printed
    /\ para' = [para EXCEPT !.lines = multi_line(Text(para.words, 1), 1, para.w),
                            !.printed = TRUE]
    /\ UNCHANGED <<pdf, pc, nblocks, block, artifact, doc, twin>>

SpecPara == InitPara /\ [][MultiCell]_vars

\* ---- two renders of one block sequence ---------------------------------------
\* a statement of build_pdf as data: the block method and its arguments
Item(kind, n, opt) == [kind |-> kind, n |-> n, opt |-> opt]

build_step(p, b) ==
    CASE b.kind = "cover" -> cover_page(p, b.n)
      [] b.kind = "toc" -> table_of_contents(p, b.n)
      [] b.kind = "section_title" -> new_section(p)
      [] b.kind = "sub_title" -> sub_title(p)
      [] b.kind = "body_text" -> body_text(p, b.n)
      [] b.kind = "bullet" -> bullet(p, b.n, b.opt)
      [] b.kind = "code_block" -> code_block(p, b.n)
      [] b.kind = "status_badge" -> status_badge(p, b.opt)
      [] OTHER -> p

TwinItems ==
    {Item("section_title", 1, ""), Item("body_text", MaxLines, ""),
     Item("code_block", BigCode, ""), Item("code_block", HugeCode, ""),
     Item("status_badge", 1, "in-progress")}

Docs ==
    {<<Item("cover", 1, ""), Item("toc", 11, ""), Item("section_title", 1, "")>> \o tail :
        tail \in [1..TwinBlocks -> TwinItems]}

\* statements of doc a render has executed
Pos(r) ==
    CASE r.pc = "cover" -> 0
      [] r.pc = "toc" -> 1
      [] r.pc = "section" -> 2
      [] OTHER -> 2 + r.nblocks

\* the next statement of doc, executed by the render r
execute(r, b) ==
    [r EXCEPT !.pdf = note(build_step(begin(r.pdf), b), b.kind),
              !.pc = CASE b.kind = "cover" -> "toc"
                       [] b.kind = "toc" -> "section"
                       [] OTHER -> "body",
              !.nblocks = IF b.kind \in {"cover", "toc"} THEN 0 ELSE @ + 1]

next_step(r) == execute(r, doc[Pos(r) + 1])

last_step(r) ==
    [r EXCEPT !.pdf = output(r.pdf),
              !.artifact = Append(@, [pages |-> r.pdf.page]),
              !.pc = "done"]

\* the first render, as a record
First == [pdf |-> pdf, pc |-> pc, nblocks |-> nblocks, artifact |-> artifact]

InitTwin ==
    /\ pdf = FeaturePDF
    /\ pc = "cover"
    /\ nblocks = 0
    /\ block = NoBlock
    /\ artifact = <<>>
    /\ para = NoPara
    /\ doc \in Docs
    /\ twin = NoTwin

\* the first render becomes r by executing the statement b
Becomes(r, b) ==
    /\ pdf' = r.pdf
    /\ pc' = r.pc
    /\ nblocks' = r.nblocks
    /\ block' = [Started(b.kind, b.n, b.kind \in {"cover", "toc", "section_title"})
                    EXCEPT !.opt = b.opt]

DrawFirst ==
    /\ Pos(First) < Len(doc)
    /\ pc # "done"
    /\ Becomes(next_step(First), doc[Pos(First) + 1])
    /\ UNCHANGED <<artifact, para, doc, twin>>

OutputFirst ==
    /\ Pos(First) = Len(doc)
    /\ Output
    /\ UNCHANGED <<doc, twin>>

DrawTwin ==
    /\ Pos(twin) < Len(doc)
    /\ twin.pc # "done"
    /\ twin' = next_step(twin)
    /\ UNCHANGED <<pdf, pc, nblocks, block, artifact, para, doc>>

OutputTwin ==
    /\ Pos(twin) = Len(doc)
    /\ twin.pc # "done"
    /\ twin' = last_step(twin)
    /\ UNCHANGED <<pdf, pc, nblocks, block, artifact, para, doc>>

\* the wall clock both renders read in footer() moves on by a minute
Tick ==
    /\ pdf.now < MaxTicks
    /\ pdf' = [pdf EXCEPT !.now = @ + 1]
    /\ twin' = [twin EXCEPT !.pdf.now = @ + 1]
    /\ UNCHANGED <<pc, nblocks, block, artifact, para, doc>>

NextTwin ==
    \/ DrawFirst
    \/ OutputFirst
    \/ DrawTwin
    \/ OutputTwin
    \/ Tick

SpecTwin == InitTwin /\ [][NextTwin]_vars

\* ---- the two generators side by side ---------------------------------------
\* every layout method of the class, called as build_pdf calls it
PairItems ==
    {Item("section_title", 1, ""), Item("sub_title", 1, ""),
     Item("body_text", MaxLines, ""), Item("bullet", MaxLines, 30),
     Item("code_block", BigCode, ""), Item("code_block", HugeCode, ""),
     Item("status_badge", 1, "complete"), Item("status_badge", 1, "planned")}

PairDocs ==
    {<<Item("cover", 1, ""), Item("toc", 11, ""), Item("section_title", 1, "")>> \o tail :
        tail \in [1..TwinBlocks -> PairItems]}

\* the same statements run on an instance of each generator's class
InitPair ==
    /\ pdf = FeaturePDF
    /\ pc = "cover"
    /\ nblocks = 0
    /\ block = NoBlock
    /\ artifact = <<>>
    /\ para = NoPara
    /\ doc \in PairDocs
    /\ twin = [NoTwin EXCEPT !.pdf = FeaturePDF_feed]

NextPair ==
    \/ DrawFirst
    \/ OutputFirst
    \/ DrawTwin
    \/ OutputTwin

SpecPair == InitPair /\ [][NextPair]_vars

\* build_pdf is one sequential call: while a step is left to run, one runs. Cover, Toc
\* and the first Section are enabled exactly in the opening positions, each of which
\* is left for good by the one step enabled there, so their weak fairness is that the
\* render does not stay in an opening position; from then on output is always
\* enabled and the block steps are finitely many.
SpecLive == Init /\ [][Render]_vars /\ []<>~Opening /\ WF_vars(Output)

\* ---- layout facts the properties are stated with --------------------------
\* the cursor y the header leaves on every new page: set_y(5), then ln(12)
TopY == 10 + 24

\* blocks whose page breaks are left to the automatic page break
Flowed == {"sub_title", "body_text", "bullet", "code_block", "status_badge", "checklist_row"}

\* a block's height by the height rules: rows times row height
Required(kind, n) ==
    CASE kind = "section_title" -> 20
      [] kind = "sub_title" -> 16
      [] kind = "body_text" -> n * BodyLineH
      [] kind = "bullet" -> n * BodyLineH
      [] kind = "code_block" -> n * CodeLineH
      [] kind = "status_badge" -> 12
      [] kind = "checklist_row" -> 12
      [] OTHER -> 0

\* the gap a block method leaves before its first row and after its last one
Lead(kind) ==
    CASE kind = "section_title" -> 8
      [] kind = "sub_title" -> 4
      [] OTHER -> 0

Trail(kind) ==
    CASE kind = "section_title" -> 8
      [] kind = "sub_title" -> 2
      [] kind = "body_text" -> 4
      [] kind = "bullet" -> 2
      [] kind = "code_block" -> 6
      [] kind = "status_badge" -> 2
      [] OTHER -> 0

Room == PageBreakTrigger - block.y0

Broke(e) == e.page # e.from.page

OnOnePage == \A i, j \in DOMAIN pdf.drawn : pdf.drawn[i].page = pdf.drawn[j].page

HasDecor(i, d) == \E j \in DOMAIN pdf.pages[i].decor : pdf.pages[i].decor[j] = d

\* ---- C1 ------------------------------------------------------------------
\* C1: the page numbers assigned in one render are 1..N with no gap and no
\* repeat, whether the page was started by add_page or by an automatic break;
\* N is the number of pages started, and every footer written carries the
\* number of the page it is on.
C1_PageNumbersContiguous ==
    /\ pdf.page = Len(pdf.pages)
    /\ \A i \in DOMAIN pdf.pages :
          /\ pdf.pages[i].no = i
          /\ pdf.pages[i].footno \in {0, i}
          /\ (i < pdf.page \/ pc = "done") => pdf.pages[i].footno = i

C1_Witness ==
    /\ pc = "done"
    /\ pdf.page >= 4
    /\ \E i \in DOMAIN pdf.pages : pdf.pages[i].auto
    /\ \E i \in DOMAIN pdf.pages : i > 2 /\ ~pdf.pages[i].auto

\* ---- C2 ------------------------------------------------------------------
\* C2: in the finished document every page, also one started by an automatic
\* page break, has the full-page background fill, the header band and the
\* footer band.
C2_EveryPageDecorated ==
    pc = "done" =>
        \A i \in DOMAIN pdf.pages :
            HasDecor(i, "bg") /\ HasDecor(i, "band") /\ HasDecor(i, "footer")

\* ---- C3 ------------------------------------------------------------------
\* C3 (as claimed): a flowed block is moved to a new page exactly when its
\* required height exceeds the room left above the printable bottom, and is
\* drawn on the current page when it fits.
C3_BreakIffBlockTooTall ==
    (block.kind \in Flowed /\ pdf.drawn # <<>>) =>
        /\ (pdf.drawn[1].page # block.page0) <=> (Required(block.kind, block.lines) > Room)
        /\ Required(block.kind, block.lines) <= Room =>
              \A i \in DOMAIN pdf.drawn : pdf.drawn[i].page = block.page0

\* C3 (amended): the test is made per row with the row's own height: a page
\* break precedes a row exactly when the cursor y at that row plus the row
\* height exceeds the printable bottom; the row is then drawn at the top of
\* the next page, otherwise at the cursor on the current page.
C3_BreakIffRowTooTall ==
    block.kind \in Flowed =>
        \A i \in DOMAIN pdf.drawn :
            LET e == pdf.drawn[i] IN
            /\ Broke(e) <=> (e.from.y + e.h > PageBreakTrigger)
            /\ ~Broke(e) => e.y = e.from.y
            /\ Broke(e) => (e.page = e.from.page + 1 /\ e.y = TopY)

C3_Witness ==
    /\ block.kind = "body_text"
    /\ block.lines = 3
    /\ Len(pdf.drawn) = 3
    /\ ~Broke(pdf.drawn[1])
    /\ Broke(pdf.drawn[2])
    /\ Required(block.kind, block.lines) > Room

\* ---- C4 ------------------------------------------------------------------
\* C4 (as claimed): all lines of a code block are on one page, and a code
\* block that does not fit in the room left starts on a new page.
C4_CodeBlockOnOnePage ==
    (block.kind = "code_block" /\ pdf.drawn # <<>>) =>
        /\ OnOnePage
        /\ Required("code_block", block.lines) > Room => pdf.drawn[1].page = block.page0 + 1

\* C4 (amended): a code block is split only between lines: every line with
\* its fill lies whole on one page above the printable bottom; a block that
\* fits in the room left is on the current page; a block that does not fit
\* continues on the next page from the first line that does not fit (from
\* its first line when not even that one fits).
C4_CodeBlockSplitsBetweenLines ==
    block.kind = "code_block" =>
        /\ Len(pdf.drawn) = block.lines
        /\ \A i \in DOMAIN pdf.drawn :
              /\ pdf.drawn[i].what = "code"
              /\ pdf.drawn[i].h = CodeLineH
              /\ pdf.drawn[i].y + pdf.drawn[i].h <= PageBreakTrigger
              /\ pdf.drawn[i].page =
                    IF i * CodeLineH <= Room THEN block.page0
                    ELSE IF i = 1 THEN block.page0 + 1
                    ELSE IF Broke(pdf.drawn[i]) THEN pdf.drawn[i - 1].page + 1
                    ELSE pdf.drawn[i - 1].page

C4_Witness ==
    /\ block.kind = "code_block"
    /\ block.lines = MaxLines
    /\ pdf.drawn[1].page = block.page0
    /\ pdf.drawn[Len(pdf.drawn)].page = block.page0 + 1

\* ---- C5 ------------------------------------------------------------------
Oversize == block.kind = "code_block" /\ block.lines * CodeLineH > PageBreakTrigger - TopY

\* C5 (as claimed): a block taller than the printable page starts at the top
\* of a fresh page and all of it is drawn there, overflowing the bottom.
C5_OversizeStartsOnFreshPage ==
    Oversize =>
        /\ pdf.drawn[1].page = block.page0 + 1
        /\ pdf.drawn[1].y = TopY
        /\ OnOnePage

\* C5 (amended): a block taller than the printable page starts at the cursor
\* when its first line fits there (at the top of the next page only when it
\* does not), runs on over the following pages with no line below the
\* printable bottom, and the render still ends with the document finalized.
C5_OversizeFlowsAcrossPages ==
    Oversize =>
        /\ Len(pdf.drawn) = block.lines
        /\ IF CodeLineH <= Room
           THEN pdf.drawn[1].page = block.page0 /\ pdf.drawn[1].y = block.y0
           ELSE pdf.drawn[1].page = block.page0 + 1 /\ pdf.drawn[1].y = TopY
        /\ \A i \in DOMAIN pdf.drawn : pdf.drawn[i].y + pdf.drawn[i].h <= PageBreakTrigger
        /\ pdf.drawn[Len(pdf.drawn)].page > pdf.drawn[1].page
        /\ pc = "done" => (pdf.nb = pdf.page /\ HasDecor(pdf.page, "footer"))

C5_Witness ==
    /\ Oversize
    /\ pc = "done"
    /\ pdf.drawn[1].page = block.page0
    /\ pdf.drawn[1].y > TopY

\* ---- C6 ------------------------------------------------------------------
\* C6: the cover is drawn entirely on page 1 and nothing else is drawn on
\* that page; the table of contents that follows is on page 2.
C6_CoverAloneOnFirstPage ==
    /\ block.kind = "cover" => (OnOnePage /\ pdf.page = 1 /\ pdf.drawn[1].page = 1)
    /\ pc \notin {"cover", "failed"} =>
          /\ pdf.pages[1].kinds = {"cover"}
          /\ \A i \in DOMAIN pdf.pages : "cover" \in pdf.pages[i].kinds => i = 1
    /\ pc \notin {"cover", "toc", "failed"} =>
          \A i \in DOMAIN pdf.pages : "toc" \in pdf.pages[i].kinds <=> i = 2

C6_Witness ==
    /\ pc = "section"
    /\ block.kind = "toc"
    /\ block.prev.page = 1
    /\ pdf.pages[1].kinds = {"cover"}
    /\ pdf.pages[2].kinds = {"toc"}

\* ---- C7 ------------------------------------------------------------------
\* the whole height of a block: leading gap, rows, trailing gap
Full(kind, n) == Lead(kind) + Required(kind, n) + Trail(kind)

StartsNewPage == pdf.drawn # <<>> /\ pdf.drawn[1].page # block.page0

\* C7 (as claimed): apart from the cover and the table of contents, a block
\* (section heading included) starts a new page only when it does not fit in
\* the room left.
C7_OnlyCoverAndTocForced ==
    (block.kind \in Flowed \cup {"section_title"} /\ StartsNewPage) =>
        Full(block.kind, block.lines) > Room

\* C7 (amended): the cover, the table of contents and every section heading
\* start a new page whatever room is left; every other block starts a new
\* page only when it does not fit in the room left.
C7_CoverTocAndSectionsForced ==
    /\ block.kind \in {"cover", "toc", "section_title"} =>
          (pdf.drawn[1].page = block.page0 + 1 /\ pdf.drawn[1].page = pdf.page)
    /\ (block.kind \in Flowed /\ StartsNewPage) => Full(block.kind, block.lines) > Room

C7_Witness ==
    /\ block.kind = "section_title"
    /\ block.page0 > 2
    /\ StartsNewPage
    /\ Full(block.kind, block.lines) <= Room

\* ---- C8 ------------------------------------------------------------------
\* C8: nothing a block draws reaches below the printable bottom: a row drawn
\* at y with height h has y + h <= 277 mm, unless the single row is taller
\* than the whole printable page.
C8_NothingBelowPrintableBottom ==
    \A i \in DOMAIN pdf.drawn :
        \/ pdf.drawn[i].y + pdf.drawn[i].h <= PageBreakTrigger
        \/ pdf.drawn[i].h > PageBreakTrigger - TopY

C8_Witness ==
    /\ block.kind \in Flowed \cup {"caption"}
    /\ \E i \in DOMAIN pdf.drawn :
          pdf.drawn[i].h > 0 /\ pdf.drawn[i].y + pdf.drawn[i].h = PageBreakTrigger

\* ---- C9 ------------------------------------------------------------------
\* C9 (as claimed): after a block the cursor y is the y at which the block
\* started on the page it is drawn on, plus its computed height and gaps.
C9_CursorIsStartPlusHeight ==
    (pc = "body" /\ block.kind \in Flowed \cup {"section_title"} /\ pdf.drawn # <<>>) =>
        pdf.y = (IF StartsNewPage THEN TopY ELSE block.y0) + Full(block.kind, block.lines)

\* C9 (amended): after a block the cursor is on the page of the block's last
\* drawn element, at that element's bottom plus the block's trailing gap; it
\* is the start y plus the block's whole height when no page break happened
\* inside the block (for a section heading: the top of its page plus 18 mm).
C9_CursorBelowLastElement ==
    (pc = "body" /\ block.kind \in Flowed \cup {"section_title"}) =>
        /\ pdf.page = Bottom(pdf).page
        /\ pdf.y = Bottom(pdf).y + Trail(block.kind)
        /\ (block.kind \in Flowed /\ \A i \in DOMAIN pdf.drawn : ~Broke(pdf.drawn[i])) =>
              pdf.y = block.y0 + Full(block.kind, block.lines)
        /\ block.kind = "section_title" => pdf.y = TopY + Full(block.kind, block.lines)

C9_Witness ==
    /\ pc = "body"
    /\ block.kind = "sub_title"
    /\ Broke(pdf.drawn[1])
    /\ pdf.y = TopY + 16 + 2

\* ---- C10 -----------------------------------------------------------------
\* the draw calls a block consists of
Elements(kind, n) ==
    CASE kind = "cover" -> n + 9
      [] kind = "toc" -> 2 + 2 * n
      [] kind = "section_title" -> 2
      [] kind = "bullet" -> n + 1
      [] kind \in {"body_text", "code_block"} -> n
      [] kind = "checklist_row" -> 2
      [] kind = "checklist" -> 2 * n
      [] kind \in {"sub_title", "status_badge", "caption"} -> 1
      [] OTHER -> 0

IsRow(e) == e.h > 0 /\ e.what # "card"

\* e is drawn before f in reading order: on an earlier page, above it, or left of it
Precedes(e, f) ==
    \/ e.page < f.page
    \/ e.page = f.page /\ e.y + e.h <= f.y
    \/ e.page = f.page /\ e.y = f.y /\ e.x < f.x

\* C10: every block is drawn exactly once and in document order: a block has
\* exactly its own draw calls, the lines of a wrapped block are 1..n in order,
\* rows follow one another in (page, y) order, and a block starts at or after
\* the bottom of the block before it; a page break drops or repeats nothing.
C10_DrawnOnceInOrder ==
    /\ Len(pdf.drawn) = Elements(block.kind, block.lines)
    /\ block.kind \in {"body_text", "code_block"} =>
          \A i \in DOMAIN pdf.drawn : pdf.drawn[i].line = i
    /\ block.kind = "bullet" =>
          \A i \in DOMAIN pdf.drawn : pdf.drawn[i].line = i - 1
    /\ \A i, j \in DOMAIN pdf.drawn :
          (i < j /\ IsRow(pdf.drawn[i]) /\ IsRow(pdf.drawn[j])) =>
              Precedes(pdf.drawn[i], pdf.drawn[j])
    /\ \A i \in DOMAIN pdf.drawn :
          IsRow(pdf.drawn[i]) =>
              \/ block.prev.page < pdf.drawn[i].page
              \/ block.prev.page = pdf.drawn[i].page /\ block.prev.y <= pdf.drawn[i].y

C10_Witness ==
    /\ block.kind = "bullet"
    /\ block.lines = 3
    /\ block.prev.page = block.page0
    /\ pdf.drawn[2].page = block.page0
    /\ pdf.drawn[4].page = block.page0 + 1
\* C11: while the document is laid out every footer written so far carries the
\* alias of the page count and no count has been substituted; when output() has run,
\* after the last page, page k of the N pages reads "Page k/N" with the same N.
C11_TotalResolvedAtOutput ==
    /\ pc # "done" =>
          /\ pdf.nb = 0
          /\ \A i \in DOMAIN pdf.pages :
                /\ pdf.pages[i].total \in {"", pdf.alias}
                /\ HasDecor(i, "footer") <=> pdf.pages[i].total = pdf.alias
                /\ i < pdf.page => HasDecor(i, "footer")
    /\ pc = "done" =>
          /\ pdf.nb = Len(pdf.pages)
          /\ \A k \in DOMAIN pdf.pages :
                /\ pdf.pages[k].footno = k
                /\ pdf.pages[k].total = ToString(Len(pdf.pages))

C11_Witness ==
    /\ pc = "done"
    /\ Len(pdf.pages) >= 5
    /\ \E i \in DOMAIN pdf.pages : pdf.pages[i].auto
    /\ \A k \in DOMAIN pdf.pages : pdf.pages[k].total = "5"

\* the elements drawn at the cursor (a line is drawn at coordinates of its own)
AtCursor == {i \in DOMAIN pdf.drawn : pdf.drawn[i].what \notin Lines}

\* C12: the elements a block draws at the cursor on one page go down the page, the
\* cursor a block leaves is not above the one it found on that page (the footer that
\* output() writes is placed from the page bottom and is not a content block), and
\* every page, opened by add_page or by an automatic break, starts with the cursor at
\* 17 mm.
C12_CursorDownThePageAndResetAtTop ==
    /\ \A i \in DOMAIN pdf.pages : pdf.pages[i].top = TopY
    /\ \A i \in AtCursor :
          /\ Broke(pdf.drawn[i]) => pdf.drawn[i].y = TopY
          /\ pdf.drawn[i].page = block.page0 => pdf.drawn[i].y >= block.y0
          /\ (pc # "done" /\ pdf.drawn[i].page = pdf.page) => pdf.y >= pdf.drawn[i].y
          /\ \A j \in AtCursor :
                (i < j /\ pdf.drawn[i].page = pdf.drawn[j].page)
                    => pdf.drawn[i].y <= pdf.drawn[j].y
    /\ (pc # "done" /\ pdf.page = block.page0) => pdf.y >= block.y0

C12_Witness ==
    /\ block.kind = "code_block"
    /\ \E i, j \in DOMAIN pdf.drawn :
          /\ i < j
          /\ Broke(pdf.drawn[i])
          /\ pdf.drawn[i].from.y > 500
          /\ pdf.drawn[i].y = TopY
          /\ pdf.drawn[j].page = pdf.drawn[i].page
          /\ pdf.drawn[j].y > TopY
    /\ \E k \in DOMAIN pdf.pages : ~pdf.pages[k].auto /\ pdf.pages[k].top = TopY

\* C18: every colour a draw call uses (text, fill and line colours of the blocks, and
\* those of the header, background and footer of every page) is one of the named
\* theme colours.
C18_EveryColorFromTheme ==
    /\ \A i \in DOMAIN pdf.pages : pdf.pages[i].colors \subseteq Theme
    /\ \A i \in DOMAIN pdf.drawn :
          pdf.drawn[i].color \in Theme /\ pdf.drawn[i].fill \in Theme

\* what status_badge draws for a status at the current cursor: marker text and colour
BadgeOf(s) ==
    LET d == status_badge(begin(pdf), s).drawn[1]
    IN  <<d.what, d.color>>

\* C20: the three statuses draw three pairwise different (marker, colour) pairs, and
\* a status badge is one row of height 6 followed by a gap of 1: one cell, and the
\* cursor 7 below where the cell was drawn.
C20_BadgesDistinctOneFixedRow ==
    pc = "body" =>
        /\ \A s, t \in Statuses : s # t => BadgeOf(s) # BadgeOf(t)
        /\ block.kind = "status_badge" =>
              /\ Len(pdf.drawn) = 1
              /\ pdf.drawn[1].h = 12
              /\ \E s \in Statuses : <<pdf.drawn[1].what, pdf.drawn[1].color>> = BadgeOf(s)
              /\ pdf.page = pdf.drawn[1].page
              /\ pdf.x = LMargin
              /\ pdf.y = pdf.drawn[1].y + 12 + 2

C20_Witness ==
    /\ pc = "body"
    /\ block.kind = "status_badge"
    /\ pdf.drawn[1].what = "[IN PROGRESS]"
    /\ pdf.drawn[1].color = RGB_255_183_77
    /\ Broke(pdf.drawn[1])

\* rows of height 6 that fit on a page below its header
RowsPerPage == (PageBreakTrigger - TopY) \div 12

\* rows of the checklist that fit below the cursor the loop starts at
RowsThatFit ==
    IF block.y0 + 12 > PageBreakTrigger THEN 0 ELSE (PageBreakTrigger - block.y0) \div 12

\* C13: the checklist loop draws row i of n as a glyph cell and a label cell side by
\* side, once and in list order; row i stays on the page the loop started on exactly
\* when the rows up to and including it end at or above the printable bottom, the
\* first row that does not is the first row of the next page, drawn at the top; the
\* page left and the page entered have header and footer and consecutive numbers.
C13_ChecklistSplitsAtFirstRowThatOverflows ==
    block.kind = "checklist" =>
        /\ Len(pdf.drawn) = 2 * block.lines
        /\ \A i \in 1..block.lines :
              LET glyph == pdf.drawn[2 * i - 1]
                  label == pdf.drawn[2 * i]
                  over == i - RowsThatFit - 1
              IN  /\ glyph.line = i /\ label.line = i
                  /\ glyph.what \in {"[x]", "[ ]"} /\ label.what = "label"
                  /\ glyph.x = LMargin /\ label.x = LMargin + 20
                  /\ glyph.page = label.page /\ glyph.y = label.y
                  /\ glyph.h = 12 /\ label.h = 12
                  /\ glyph.page = block.page0 <=> block.y0 + 12 * i <= PageBreakTrigger
                  /\ i <= RowsThatFit => glyph.y = block.y0 + 12 * (i - 1)
                  /\ i > RowsThatFit =>
                        /\ glyph.page = block.page0 + 1 + (over \div RowsPerPage)
                        /\ glyph.y = TopY + 12 * (over % RowsPerPage)
        /\ \A k \in block.page0..pdf.page :
              /\ pdf.pages[k].no = k
              /\ HasDecor(k, "band") /\ HasDecor(k, "title") /\ HasDecor(k, "hrule")
              /\ (k < pdf.page \/ pc = "done") =>
                    HasDecor(k, "footer") /\ pdf.pages[k].footno = k

C13_Witness ==
    /\ pc = "done"
    /\ block.kind = "checklist"
    /\ block.lines = MaxRows
    /\ block.y0 = TopY + 36
    /\ block.prev.y = TopY + 28
    /\ RowsThatFit = 40
    /\ pdf.drawn[80].page = block.page0
    /\ pdf.drawn[81].page = block.page0 + 1
    /\ pdf.drawn[81].y = TopY
    /\ pdf.page = block.page0 + 1
    /\ pdf.pages[block.page0].footno = block.page0
    /\ pdf.pages[pdf.page].footno = block.page0 + 1

\* C15: the file is written by output alone, once, when every block has been drawn:
\* a render that failed at an earlier step has written no file, a file exists only
\* in a finished render, and it is the finished document with all its pages.
C15_ArtifactOnlyFromFinishedRender ==
    /\ pc = "failed" => artifact = <<>>
    /\ pc # "done" => artifact = <<>>
    /\ pc = "done" => artifact = <<[pages |-> Len(pdf.pages)]>>

C15_Witness ==
    /\ pc = "failed"
    /\ nblocks >= 2
    /\ artifact = <<>>

\* a block opens at most one page by add_page and one page for each row it draws
PageBreaksBounded ==
    pdf.page - block.page0 <= Len(pdf.drawn) + (IF block.forced THEN 1 ELSE 0)

RECURSIVE Glyphs(_, _)
Glyphs(lines, j) ==
    IF j > Len(lines) THEN <<>> ELSE lines[j] \o Glyphs(lines, j + 1)

Letters(seq) == SelectSeq(seq, LAMBDA g : g # SPACE)

NoLongWord == \A i \in DOMAIN para.words : para.words[i] <= para.w

\* a line is made of whole words
WholeWords(row) ==
    /\ row # <<>>
    /\ row[1] # SPACE /\ row[1].c = 1
    /\ row[Len(row)] # SPACE /\ row[Len(row)].c = para.words[row[Len(row)].w]

\* the next word would not have fitted on line j: it is broken at the last space it can
BrokenAtLastSpace(j) ==
    j < Len(para.lines) =>
        Len(para.lines[j]) + 1 + para.words[para.lines[j + 1][1].w] > para.w

\* C19 as claimed: with no word wider than the line, no printed line is wider than it
\* and each line ends at the last space it can; a word wider than the line is printed
\* whole, alone on a line of its own.
C19_LongWordAloneOnItsLine ==
    para.printed =>
        /\ NoLongWord =>
              \A j \in DOMAIN para.lines :
                  /\ Len(para.lines[j]) <= para.w
                  /\ WholeWords(para.lines[j])
                  /\ BrokenAtLastSpace(j)
        /\ \A i \in DOMAIN para.words :
              para.words[i] > para.w =>
                  \E j \in DOMAIN para.lines : para.lines[j] = Word(i, para.words[i])

\* C19, amended: no printed line is wider than the line width, whatever the words, and
\* the letters printed are the letters of the text, in order, none dropped and none
\* added; with no word wider than the line every line is made of whole words and ends
\* at the last space it can; a word wider than the line starts a line and is cut
\* where the line is full, going on at the start of the next line.
C19_LongWordCutAtLineWidth ==
    para.printed =>
        /\ \A j \in DOMAIN para.lines :
              Len(para.lines[j]) <= para.w /\ para.lines[j] # <<>>
        /\ Letters(Glyphs(para.lines, 1)) = Letters(Text(para.words, 1))
        /\ NoLongWord =>
              \A j \in DOMAIN para.lines :
                  WholeWords(para.lines[j]) /\ BrokenAtLastSpace(j)
        /\ \A i \in DOMAIN para.words :
              para.words[i] > para.w =>
                  \E j \in DOMAIN para.lines :
                      /\ j < Len(para.lines)
                      /\ para.lines[j] = SubSeq(Word(i, para.words[i]), 1, para.w)
                      /\ para.lines[j + 1][1] = [w |-> i, c |-> para.w + 1]

C19_Witness ==
    /\ para.printed
    /\ para.words = <<2, 5, 1>>
    /\ para.w = 4
    /\ Len(para.lines) = 3
    /\ para.lines[1] = Word(1, 2)
    /\ para.lines[2] = SubSeq(Word(2, 5), 1, 4)
    /\ para.lines[3] = <<[w |-> 2, c |-> 5], SPACE, [w |-> 3, c |-> 1]>>

\* what a render has drawn, the time read from the clock left out
Layout(p) ==
    [p EXCEPT !.now = 0,
              !.pages = [i \in DOMAIN p.pages |-> [p.pages[i] EXCEPT !.stamp = 0]]]

RECURSIVE Alone(_)
Alone(i) == IF i = 0 THEN NoTwin ELSE next_step(Alone(i - 1))

AloneAt(r) == IF r.pc = "done" THEN last_step(Alone(Len(doc))) ELSE Alone(Pos(r))

RowDrawnAs(glyph, label, done) ==
    /\ glyph.what = (IF done THEN "[x]" ELSE "[ ]")
    /\ glyph.color = (IF done THEN SUCCESS ELSE DANGER)
    /\ label.what = "label"
    /\ label.color = TEXT_SECONDARY
    /\ label.x = glyph.x + 20

\* C21: every checklist row is drawn with the glyph of its done flag, "[x]" in the
\* success colour when done and "[ ]" in the danger colour when not, and its label is
\* drawn in the secondary text colour whatever the flag; this holds for a single row
\* and for every row of the checklist loop.
C21_GlyphMatchesDoneFlag ==
    /\ block.kind = "checklist_row" =>
          /\ Len(pdf.drawn) = 2
          /\ RowDrawnAs(pdf.drawn[1], pdf.drawn[2], block.opt)
    /\ block.kind = "checklist" =>
          \A i \in 1..block.lines :
              RowDrawnAs(pdf.drawn[2 * i - 1], pdf.drawn[2 * i], i <= block.opt)

C21_Witness ==
    /\ block.kind = "checklist"
    /\ block.lines = 26
    /\ block.opt = 21
    /\ pdf.drawn[41].what = "[x]" /\ pdf.drawn[41].color = SUCCESS
    /\ pdf.drawn[43].what = "[ ]" /\ pdf.drawn[43].color = DANGER
    /\ pdf.drawn[42].color = TEXT_SECONDARY /\ pdf.drawn[44].color = TEXT_SECONDARY

\* the i-th entry of the table of contents: its line and its label cell, drawn after
\* the heading and its underline
TocLine(i) == pdf.drawn[2 * i + 1]

TocLabel(i) == pdf.drawn[2 * i + 2]

\* C22 as claimed: every entry of the table of contents is one row of height 9 with
\* its separating line above it: the line is not below the top of the row, and it is
\* on the page of the row's label.
C22_TocLineAboveRow ==
    block.kind = "toc" =>
        \A i \in 1..block.lines :
            /\ TocLine(i).what = "tocline" /\ TocLabel(i).what = "toc"
            /\ TocLabel(i).h = 18
            /\ TocLine(i).y <= TocLabel(i).y
            /\ TocLine(i).page = TocLabel(i).page

\* C22, amended: every entry is one row of height 9, the rows follow one another
\* without a gap, and the line of an entry is drawn before its label at the cursor y
\* plus 6, that is inside the row, 6 below its top and 3 above its bottom, on the page
\* the cursor is on when the entry starts; no entry of the 11- and 13-entry lists
\* triggers a page break, so line and label are on the same page.
C22_TocLineInsideRow ==
    block.kind = "toc" =>
        \A i \in 1..block.lines :
            /\ TocLine(i).what = "tocline" /\ TocLabel(i).what = "toc"
            /\ TocLabel(i).h = 18
            /\ TocLine(i).y = TocLabel(i).from.y + 12
            /\ TocLine(i).page = TocLabel(i).from.page
            /\ ~Broke(TocLabel(i))
            /\ TocLine(i).y = TocLabel(i).y + 12
            /\ TocLine(i).y < TocLabel(i).y + TocLabel(i).h
            /\ TocLine(i).page = TocLabel(i).page
            /\ i > 1 => TocLabel(i).y = TocLabel(i - 1).y + 18

C22_Witness ==
    /\ block.kind = "toc"
    /\ block.lines = 13
    /\ TocLabel(13).page = 2
    /\ TocLabel(13).y = TocLabel(1).y + 12 * 18
    /\ TocLine(13).page = 2
    /\ TocLine(13).y = TocLabel(13).y + 12
    /\ TocLine(13).y + 6 = pdf.y

\* what an instance has laid out, the header title text left out
Untitled(p) ==
    [p EXCEPT !.title = "",
              !.pages = [i \in DOMAIN p.pages |-> [p.pages[i] EXCEPT !.title = ""]]]

PaintedBefore(i, d, e) ==
    \A j, k \in DOMAIN pdf.pages[i].decor :
        (pdf.pages[i].decor[j] = d /\ pdf.pages[i].decor[k] = e) => j < k

\* C24: on every page the full-page background fill is painted before the title text
\* and the ruled line of the header, so that no later background rectangle covers a
\* header element, on pages opened by add_page followed by dark_bg as on pages opened
\* by an automatic page break.
C24_BackgroundBeforeHeader ==
    \A i \in DOMAIN pdf.pages :
        /\ PaintedBefore(i, "bg", "band")
        /\ PaintedBefore(i, "bg", "title")
        /\ PaintedBefore(i, "bg", "hrule")

\* C25: within one render every page footer shows the same generation time: the
\* footers of any two pages differ in the page number only.
C25_OneTimestampPerRender ==
    \A j, k \in DOMAIN pdf.pages :
        (HasDecor(j, "footer") /\ HasDecor(k, "footer")) =>
            /\ pdf.pages[j].stamp = pdf.pages[k].stamp
            /\ pdf.pages[j].total = pdf.pages[k].total

\* the block methods and loops of build_pdf that C26 is about
Blocks == Flowed \cup {"section_title", "toc", "checklist"}

\* C26: when a block method (section heading, sub-heading, paragraph, bullet, code
\* block, status badge, checklist row, table-of-contents row) has returned, the cursor
\* x is at the left margin, also when an automatic page break happened inside the
\* block; so every block starts at the left margin, a bullet's marker is drawn at the
\* left margin plus the indent and its text 3 further right, on every line.
C26_CursorBackAtLeftMargin ==
    /\ (pc \in {"section", "body", "checklist"} /\ block.kind \in Blocks) =>
          pdf.x = LMargin
    /\ block.kind \in Blocks \ {"toc"} => block.x0 = LMargin
    /\ block.kind = "bullet" =>
          /\ pdf.drawn[1].what = "marker"
          /\ pdf.drawn[1].x = LMargin + block.opt
          /\ \A i \in 2..Len(pdf.drawn) : pdf.drawn[i].x = LMargin + block.opt + 12

C26_Witness ==
    /\ pc = "body"
    /\ block.kind = "bullet"
    /\ block.lines = 3
    /\ block.opt = 30
    /\ block.prev.page = block.page0
    /\ Broke(pdf.drawn[3])
    /\ pdf.drawn[3].x = LMargin + 42
    /\ pdf.x = LMargin

\* two cells of one row: b is drawn right after a, at the cursor y a left, on a's page
SideBySide(a, b) ==
    /\ a.h = b.h
    /\ b.from = [page |-> a.page, y |-> a.y]
    /\ ~Broke(b)
    /\ b.page = a.page /\ b.y = a.y
    /\ b.x > a.x

\* C27: the two parts of a row are never separated by a page break: the glyph and the
\* label of a checklist row, and the marker and the first text line of a bullet, are
\* drawn on the same page at the same y; the two cells have the same height and the
\* cursor y does not change between them, so the break test of the second is the one
\* the first has passed.
C27_RowPartsNotSeparated ==
    /\ block.kind = "checklist_row" => SideBySide(pdf.drawn[1], pdf.drawn[2])
    /\ block.kind = "checklist" =>
          \A i \in 1..block.lines : SideBySide(pdf.drawn[2 * i - 1], pdf.drawn[2 * i])
    /\ block.kind = "bullet" =>
          /\ pdf.drawn[1].what = "marker" /\ pdf.drawn[2].what = "text"
          /\ pdf.drawn[2].line = 1
          /\ SideBySide(pdf.drawn[1], pdf.drawn[2])

C27_Witness ==
    /\ block.kind = "bullet"
    /\ block.y0 + BodyLineH > PageBreakTrigger
    /\ Broke(pdf.drawn[1])
    /\ pdf.drawn[1].y = TopY
    /\ pdf.drawn[2].page = block.page0 + 1
    /\ pdf.drawn[2].y = TopY

\* what build_pdf draws first on a page it opens with add_page
Openers == {"cover", "toc", "section_title"}

\* C28: no page of the document is blank: a page opened by add_page in build_pdf has
\* the cover or the heading of its section on it, drawn by the block that opened it,
\* and a page opened by an automatic page break has the element that triggered the
\* break on it, drawn at the top of the page.
C28_NoBlankPage ==
    /\ \A i \in DOMAIN pdf.pages :
          /\ pdf.pages[i].kinds # {}
          /\ ~pdf.pages[i].auto => pdf.pages[i].kinds \cap Openers # {}
          /\ (pdf.pages[i].auto /\ i > block.page0) =>
                \E j \in DOMAIN pdf.drawn :
                    /\ Broke(pdf.drawn[j])
                    /\ pdf.drawn[j].from.page = i - 1
                    /\ pdf.drawn[j].page = i
                    /\ pdf.drawn[j].y = TopY
    /\ block.kind \in Openers =>
          /\ ~pdf.pages[block.page0 + 1].auto
          /\ pdf.drawn[1].page = block.page0 + 1
          /\ pdf.drawn[1].what = (IF block.kind = "cover" THEN "rule" ELSE "heading")

C28_Witness ==
    /\ pc = "done"
    /\ pdf.page >= 5
    /\ block.kind = "code_block"
    /\ pdf.page = block.page0 + 2
    /\ pdf.pages[pdf.page].auto /\ pdf.pages[pdf.page - 1].auto
    /\ pdf.pages[pdf.page].kinds = {"code_block"}
    /\ \E i \in DOMAIN pdf.pages : i > 2 /\ ~pdf.pages[i].auto

\* the step just taken is a status_badge call with a status outside the three
UnknownBadgeStep ==
    /\ nblocks' = nblocks + 1
    /\ block'.kind = "status_badge"
    /\ block'.opt \notin Statuses

\* C29: status_badge called with a status outside {complete, in-progress, planned}
\* raises nothing: the call returns, and it has drawn exactly what the call with
\* status planned draws from the same state, the marker "[PLANNED]" in the muted text
\* colour on one row of height 6, with the cursor moved on by 7 from the row's top as
\* for a valid status.
C29_UnknownStatusDrawnAsPlanned ==
    [][UnknownBadgeStep =>
          /\ pc' = "body"
          /\ pdf' = note(status_badge(begin(pdf), "planned"), "status_badge")
          /\ Len(pdf'.drawn) = 1
          /\ pdf'.drawn[1].what = "[PLANNED]"
          /\ pdf'.drawn[1].color = TEXT_MUTED
          /\ pdf'.drawn[1].h = 12
          /\ pdf'.page = pdf'.drawn[1].page
          /\ pdf'.x = LMargin
          /\ pdf'.y = pdf'.drawn[1].y + 12 + 2]_vars

C29_Witness ==
    /\ pc = "body"
    /\ block.kind = "status_badge"
    /\ block.opt = "done"
    /\ pdf.drawn[1].what = "[PLANNED]"
    /\ pdf.drawn[1].color = TEXT_MUTED
    /\ Broke(pdf.drawn[1])
    /\ pdf.y = TopY + 14

====
